---- MODULE Spec2Model ----
(***************************************************************************)
(* Fastro: the convention-driven HTTP server class (src/unnamed/part_000). *)
(*                                                                         *)
(* The model follows the class: the start-up chain of initApp, whose       *)
(* dynamic imports resolve on their own schedule, and the synchronous      *)
(* request pipeline handleRequest -> handleMiddleware -> handleRoute ->    *)
(* handleDynamicParams -> handlePage -> handleDynamicPage ->               *)
(* handleStaticFile, with the continuations of async handlers as tasks.    *)
(*                                                                         *)
(* Strings the code searches with includes/=== are sequences of tokens, so *)
(* that substring search is computed and not assumed.                      *)
(***************************************************************************)
EXTENDS Naturals, Sequences, FiniteSets, TLC

\* ------------------------------------------------------------------ bounds

\* Number of files in the middleware directory of the modelled project.
NumMiddleware == 2

\* Number of status and type calls a handler makes before it answers.
MaxStaged == 2

\* ----------------------------------------------------------------- strings

\* String.prototype.includes on token sequences.
Includes(s, sub) ==
  \E i \in 1..(Len(s) + 1) :
    /\ i + Len(sub) - 1 <= Len(s)
    /\ SubSeq(s, i, i + Len(sub) - 1) = sub

\* The value of the NOT_FOUND constant imported from constant.ts.
NOT_FOUND == <<"NOT_FOUND">>

CONTENT_TYPE == "content-type"

FASTRO_VERSION == "Fastro"

\* ----------------------------------------------------------------- project
\* The files of the modelled project directory.  options follows
\* HandlerOptions: params, prefix, methods and the headers, params,
\* querystring and body schemas of validationSchema.

NoMethods == {}
NoSchema == {}
NoPrefix == <<>>

\* Controller and page files found by importController, with the path
\* importController derives from the file name (splittedWithDot).
ModuleIds == {"c_ab", "d_a", "d_b", "p_pq", "dp_p"}

ModuleFile(id) ==
  CASE id = "c_ab" ->
         [path |-> <<"/", "b">>, isPage |-> FALSE, params |-> FALSE,
          prefix |-> <<"a">>, methods |-> {"GET"}, headers |-> {"token"},
          paramsSchema |-> NoSchema, querySchema |-> NoSchema,
          bodySchema |-> {"a"},
          props |-> "none", behaviour |-> "send"]
    [] id = "d_a" ->
         [path |-> <<"/", "a">>, isPage |-> FALSE, params |-> TRUE,
          prefix |-> NoPrefix, methods |-> {"GET"}, headers |-> NoSchema,
          paramsSchema |-> NoSchema, querySchema |-> {"name"},
          bodySchema |-> NoSchema,
          props |-> "none", behaviour |-> "asyncQuery"]
    [] id = "d_b" ->
         [path |-> <<"/", "b">>, isPage |-> FALSE, params |-> TRUE,
          prefix |-> NoPrefix, methods |-> NoMethods, headers |-> {"token"},
          paramsSchema |-> {"2"}, querySchema |-> {"name"},
          bodySchema |-> {"a"},
          props |-> "none", behaviour |-> "perRequest"]
    [] id = "p_pq" ->
         [path |-> <<"/", "p", "/", "q">>, isPage |-> TRUE, params |-> FALSE,
          prefix |-> NoPrefix, methods |-> NoMethods, headers |-> NoSchema,
          paramsSchema |-> NoSchema, querySchema |-> NoSchema,
          bodySchema |-> NoSchema,
          props |-> "object", behaviour |-> "render"]
    [] id = "dp_p" ->
         [path |-> <<"/", "p">>, isPage |-> TRUE, params |-> TRUE,
          prefix |-> NoPrefix, methods |-> NoMethods, headers |-> NoSchema,
          paramsSchema |-> NoSchema, querySchema |-> NoSchema,
          bodySchema |-> NoSchema,
          props |-> "function", behaviour |-> "render"]
    [] id = "c_ab2" ->
         [path |-> <<"/", "a", "/", "b">>, isPage |-> FALSE,
          params |-> FALSE, prefix |-> NoPrefix, methods |-> NoMethods,
          headers |-> NoSchema, paramsSchema |-> NoSchema,
          querySchema |-> NoSchema, bodySchema |-> NoSchema,
          props |-> "none", behaviour |-> "send"]
    [] id = "d_ab" ->
         [path |-> <<"/", "a", "/", "b">>, isPage |-> FALSE,
          params |-> TRUE, prefix |-> NoPrefix, methods |-> NoMethods,
          headers |-> NoSchema, paramsSchema |-> NoSchema,
          querySchema |-> NoSchema, bodySchema |-> NoSchema,
          props |-> "none", behaviour |-> "send"]
    [] id = "d_ab2" ->
         [path |-> <<"/", "b">>, isPage |-> FALSE, params |-> TRUE,
          prefix |-> <<"a">>, methods |-> NoMethods, headers |-> NoSchema,
          paramsSchema |-> NoSchema, querySchema |-> NoSchema,
          bodySchema |-> NoSchema,
          props |-> "none", behaviour |-> "send"]

\* Files of a second project directory whose route keys coincide: b under
\* the prefix option "a" and a/b without a prefix both give "/a/b".
CollidingIds == {"c_ab2", "d_ab", "d_ab2"}

\* Middleware files: a middleware module with its options.
MiddlewareName(i) == "m" \o ToString(i)

MiddlewareNames == {MiddlewareName(i) : i \in 1..NumMiddleware}

MiddlewareFile(name) ==
  [methods |-> IF name = "m1" THEN {"GET"} ELSE NoMethods,
   headers |-> IF name = "m2" THEN {"token"} ELSE NoSchema]

\* What a middleware function does with its continuation.
MiddlewareBehaviours == {"next", "nextError", "return"}

\* Static directory (flat) and its content.
StaticDir == {<<"/", "s", ".html">>}
StaticContent(path) == "static-text"

\* Static directories (flat) of further projects, each a map from the key
\* readStaticFiles derives to the decoded content: without an index.html,
\* with one, and with an index.html of zero bytes.
IndexHtml == <<"/", "index", ".html">>

StaticDirs ==
  {[p \in {<<"/", "s", ".html">>} |-> "static-text"]}
    \cup {[p \in {<<"/", "s", ".html">>, IndexHtml}
            |-> IF p = IndexHtml THEN text ELSE "static-text"]
           : text \in {"index-text", ""}}

\* Template directory (flat).
TemplateDir == {"index.template.html"}

\* What the handler of a "perRequest" controller does with a request.
HandlerBehaviours == {"json", "redirect", "throw"}

\* Requests the transport can deliver.
Urls ==
  { <<"/">>,
    <<"/", "a", "/", "b">>,
    <<"/", "a", "/", "b", "?", "name", "=", "v">>,
    <<"/", "p", "/", "q">>,
    <<"/", "s", ".html">>,
    IndexHtml,
    <<"/", "x">> }

Methods == {"GET", "POST"}
HeaderSets == {{}, {"token"}}

\* ------------------------------------------------------------------- state

VARIABLES
  stage,             \* position in the then-chain of initApp
  appStatus,         \* Fastro.appStatus
  pendingMiddleware, \* import() promises of importMiddleware not yet resolved
  pendingModules,    \* import() promises of nativeImport not yet resolved
  pendingContainer,  \* import() promise of importContainer not yet resolved
  middlewares,       \* Fastro.middlewares: keys in Map insertion order
  controller,        \* Fastro.controller: key -> module
  dynamicController, \* Fastro.dynamicController: list of [url, controller]
  pages,             \* Fastro.pages: key -> module
  dynamicPage,       \* Fastro.dynamicPage: list of [url, page]
  staticFiles,       \* Fastro.staticFiles: path -> content
  templateFiles,     \* Fastro.templateFiles: names stored
  container,         \* Fastro.container
  listening,         \* serve() has been called
  request,           \* the request in flight (its context), or NoRequest
  log,               \* what has happened for the request in flight
  tasks,             \* suspended continuations of the request in flight
  pageProps          \* the props object each page module exports

tables ==
  <<middlewares, controller, dynamicController, pages, dynamicPage,
    staticFiles, templateFiles, container>>

startup ==
  <<stage, appStatus, pendingMiddleware, pendingModules, pendingContainer,
    listening>>

inflight == <<request, log, tasks>>

vars == <<startup, tables, inflight, pageProps>>

EmptyMap == [k \in {} |-> "none"]

\* Map.prototype.set
MapSet(m, k, v) == [x \in (DOMAIN m) \cup {k} |-> IF x = k THEN v ELSE m[x]]

\* A Request object: the transport's fields, what the user code of the
\* middleware (act) and of the handler (handler) does with this request, and
\* the fields transformRequest and the staging calls set.
\* A lookup under the path of the url, without its query string.
MapGet_PathOnly(m, k) ==
  LET q == {i \in 1..Len(k) : k[i] = "?"}
      path == IF q = {} THEN k
              ELSE SubSeq(k, 1, (CHOOSE i \in q : \A j \in q : i <= j) - 1)
  IN IF path \in DOMAIN m THEN m[path] ELSE ""

\* Map.prototype.get, for the test if (!value).
MapGet(m, k) == IF k \in DOMAIN m THEN m[k] ELSE ""

\* mime is the value of the content-type header of the request (empty when
\* it has none) and body the text of its body.
NoRequest ==
  [url |-> <<>>, method |-> "", headers |-> {}, mime |-> <<>>,
   body |-> <<>>, act |-> EmptyMap, handler |-> "", container |-> "",
   httpStatus |-> 0, contentType |-> ""]

\* The props a page module exports as an object, before any request: the
\* fields sendHTML writes are not set.
NoProps ==
  [id \in {i \in ModuleIds : ModuleFile(i).props = "object"}
     |-> [url |-> <<>>, params |-> <<>>]]

Init ==
  /\ stage = "readConfig"
  /\ appStatus = ""
  /\ pendingMiddleware = {}
  /\ pendingModules = {}
  /\ pendingContainer = FALSE
  /\ middlewares = <<>>
  /\ controller = EmptyMap
  /\ dynamicController = <<>>
  /\ pages = EmptyMap
  /\ dynamicPage = <<>>
  /\ staticFiles = EmptyMap
  /\ templateFiles = {}
  /\ container = "undefined"
  /\ listening = FALSE
  /\ request = NoRequest
  /\ log = <<>>
  /\ tasks = <<>>
  /\ pageProps = NoProps

\* ---------------------------------------------------------------- start-up

\* The then-callback of an import() runs in a turn of the event loop of its
\* own: between requests, or while a request waits on a promise.
ImportTurn == request # NoRequest => (tasks # <<>> /\ ~tasks[1].micro)

\* The prefix option of the constructor (Fastro.prefix); unset by default.
ServerPrefix == NoPrefix

\* importController: the route key derived from the file path.
FileKey(id) ==
  IF ServerPrefix # NoPrefix
    THEN <<"/">> \o ServerPrefix \o ModuleFile(id).path
    ELSE ModuleFile(id).path

\* nativeImport: the key after the module's own prefix option.
RouteKey(id) ==
  IF ModuleFile(id).prefix # NoPrefix
    THEN <<"/">> \o ModuleFile(id).prefix \o FileKey(id)
    ELSE FileKey(id)

ReadConfig ==
  /\ stage = "readConfig"
  /\ stage' = "getAppStatus"
  /\ UNCHANGED <<appStatus, pendingMiddleware, pendingModules,
                 pendingContainer, listening, tables, inflight, pageProps>>

GetAppStatus ==
  /\ stage = "getAppStatus"
  /\ appStatus' = FASTRO_VERSION
  /\ stage' = "importMiddleware"
  /\ UNCHANGED <<pendingMiddleware, pendingModules, pendingContainer,
                 listening, tables, inflight, pageProps>>

\* importMiddleware starts one import() per file and does not await it.
ImportMiddleware ==
  /\ stage = "importMiddleware"
  /\ pendingMiddleware' = MiddlewareNames
  /\ stage' = "readHtmlTemplate"
  /\ UNCHANGED <<appStatus, pendingModules, pendingContainer, listening,
                 tables, inflight, pageProps>>

\* The then-callback of an import() of importMiddleware.
MiddlewareImported(name) ==
  /\ ImportTurn
  /\ name \in pendingMiddleware
  /\ pendingMiddleware' = pendingMiddleware \ {name}
  /\ middlewares' = Append(middlewares, name)
  /\ UNCHANGED <<stage, appStatus, pendingModules, pendingContainer,
                 listening, controller, dynamicController, pages,
                 dynamicPage, staticFiles, templateFiles, container,
                 inflight, pageProps>>

\* readHtmlTemplate awaits every file of the (flat) template directory.
ReadHtmlTemplate ==
  /\ stage = "readHtmlTemplate"
  /\ templateFiles' = TemplateDir
  /\ stage' = "importController"
  /\ UNCHANGED <<appStatus, pendingMiddleware, pendingModules,
                 pendingContainer, listening, middlewares, controller,
                 dynamicController, pages, dynamicPage, staticFiles,
                 container, inflight, pageProps>>

\* importController calls nativeImport per file; nativeImport starts an
\* import() and returns.
ImportController ==
  /\ stage = "importController"
  /\ pendingModules' = ModuleIds
  /\ stage' = "readStaticFiles"
  /\ UNCHANGED <<appStatus, pendingMiddleware, pendingContainer, listening,
                 tables, inflight, pageProps>>

\* The then-callback of nativeImport: registration in one of four tables.
NativeImported(id) ==
  LET m == ModuleFile(id)
      fileKey == RouteKey(id)
  IN
  /\ ImportTurn
  /\ id \in pendingModules
  /\ pendingModules' = pendingModules \ {id}
  /\ IF m.params
       THEN IF m.isPage
              THEN /\ dynamicPage' =
                        Append(dynamicPage, [url |-> fileKey, page |-> id])
                   /\ UNCHANGED <<dynamicController, pages, controller>>
              ELSE /\ dynamicController' =
                        Append(dynamicController,
                               [url |-> fileKey, controller |-> id])
                   /\ UNCHANGED <<dynamicPage, pages, controller>>
       ELSE IF m.isPage
              THEN /\ pages' = MapSet(pages, fileKey, id)
                   /\ UNCHANGED <<dynamicController, dynamicPage, controller>>
              ELSE /\ controller' = MapSet(controller, fileKey, id)
                   /\ UNCHANGED <<dynamicController, dynamicPage, pages>>
  /\ UNCHANGED <<stage, appStatus, pendingMiddleware, pendingContainer,
                 listening, middlewares, staticFiles, templateFiles,
                 container, inflight, pageProps>>

\* readStaticFiles awaits every file of the (flat) static directory.
ReadStaticFiles ==
  /\ stage = "readStaticFiles"
  /\ staticFiles' = [p \in StaticDir |-> StaticContent(p)]
  /\ stage' = "importContainer"
  /\ UNCHANGED <<appStatus, pendingMiddleware, pendingModules,
                 pendingContainer, listening, middlewares, controller,
                 dynamicController, pages, dynamicPage, templateFiles,
                 container, inflight, pageProps>>

\* importContainer starts the import() of the container and returns.
ImportContainer ==
  /\ stage = "importContainer"
  /\ pendingContainer' = TRUE
  /\ stage' = "listen"
  /\ UNCHANGED <<appStatus, pendingMiddleware, pendingModules, listening,
                 tables, inflight, pageProps>>

\* The then-callback of importContainer.
ContainerImported ==
  /\ ImportTurn
  /\ pendingContainer
  /\ pendingContainer' = FALSE
  /\ container' = "deps"
  /\ UNCHANGED <<stage, appStatus, pendingMiddleware, pendingModules,
                 listening, middlewares, controller, dynamicController,
                 pages, dynamicPage, staticFiles, templateFiles, inflight, pageProps>>

\* listen: serve() is called; the accept loop starts.
Listen ==
  /\ stage = "listen"
  /\ listening' = TRUE
  /\ stage' = "serving"
  /\ UNCHANGED <<appStatus, pendingMiddleware, pendingModules,
                 pendingContainer, tables, inflight, pageProps>>

\* ------------------------------------------------------------ values, events

NoError == [thrown |-> FALSE, name |-> "", message |-> <<>>]

\* new Error(message)
Error(message) == [thrown |-> TRUE, name |-> "Error", message |-> message]

\* createError of utils.ts: the error under a new name, its message kept.
createError(name, error) == [error EXCEPT !.name = name]

\* Payloads: a kind and a value; text is a token sequence, an object is a
\* sequence of <<key, value>> pairs in insertion order.
Str(text) == [type |-> "string", value |-> text]
Obj(pairs) == [type |-> "object", value |-> pairs]
Undefined == [type |-> "undefined", value |-> <<>>]

NoHeaders == {}

\* Headers.prototype.set: names are case-insensitive, stored in lower case.
HeadersSet(h, name, value) ==
  {p \in h : p[1] # name} \cup {<<name, value>>}

HeadersGet(h, name) ==
  IF \E p \in h : p[1] = name
    THEN (CHOOSE p \in h : p[1] = name)[2]
    ELSE "null"

\* An entry of the log of the request in flight.
Event(ev, kind, who) ==
  [ev |-> ev, kind |-> kind, who |-> who, status |-> 0,
   headers |-> NoHeaders, body |-> <<>>]

\* A response handed to ServerRequest.respond.
Response(by, status, headers, body) ==
  [ev |-> "respond", kind |-> by, who |-> "", status |-> status,
   headers |-> headers, body |-> body]

Emit(c, e) == [c EXCEPT !.log = Append(@, e)]

Throw(c, error) == [c EXCEPT !.err = error]

\* ----------------------------------------------------------- split, JSON

RECURSIVE Split(_, _)
\* String.prototype.split on a separator token.
Split(s, sep) ==
  IF \E i \in 1..Len(s) : s[i] = sep
    THEN LET i == CHOOSE j \in 1..Len(s) :
                    s[j] = sep /\ \A k \in 1..(j - 1) : s[k] # sep
         IN <<SubSeq(s, 1, i - 1)>> \o Split(SubSeq(s, i + 1, Len(s)), sep)
    ELSE <<s>>

RECURSIVE StringifyPairs(_)
StringifyPairs(pairs) ==
  IF pairs = <<>> THEN <<>>
  ELSE <<"\"">> \o pairs[1][1] \o <<"\"", ":", "\"">> \o pairs[1][2]
         \o <<"\"">>
         \o (IF Len(pairs) > 1 THEN <<",">> ELSE <<>>)
         \o StringifyPairs(Tail(pairs))

\* JSON.stringify of a flat object of strings.
JSONStringify(pairs) == <<"{">> \o StringifyPairs(pairs) \o <<"}">>

\* ------------------------------------------------------------ send family

\* The cors option of the constructor (Fastro.corsEnabled); unset by default.
corsEnabled == FALSE

RECURSIVE StringifyItems(_)
StringifyItems(items) ==
  IF items = <<>> THEN <<>>
  ELSE <<ToString(items[1])>>
         \o (IF Len(items) > 1 THEN <<",">> ELSE <<>>)
         \o StringifyItems(Tail(items))

\* JSON.stringify of an array of numbers.
JSONStringifyArray(items) == <<"[">> \o StringifyItems(items) \o <<"]">>

\* Boolean.prototype.toString
BooleanToString(b) == IF b THEN "true" ELSE "false"

\* A send that takes an array through the toString branch: "1,2,3".
send_ArrayToString(c, payload, status, headers) ==
  LET body == CASE payload.type \in {"string", "binary"} -> payload.value
                [] payload.type = "undefined" -> <<"undefined">>
                [] payload.type = "array" -> StringifyItems(payload.value)
                [] payload.type = "number" -> <<ToString(payload.value)>>
                [] payload.type = "boolean" ->
                     <<BooleanToString(payload.value)>>
                [] OTHER -> JSONStringify(payload.value)
      h1 == HeadersSet(headers, "connection", "keep-alive")
      h2 == HeadersSet(h1, "date", "now")
      h3 == HeadersSet(h2, "x-powered-by", appStatus)
      h4 == IF corsEnabled
              THEN HeadersSet(HeadersSet(HeadersSet(h3,
                     "access-control-allow-origin", "*"),
                     "access-control-allow-headers", "*"),
                     "access-control-allow-methods", "*")
              ELSE h3
  IN Emit(c, Response("send", status, h4, body))

\* Fastro.send: the body by kind of payload, the fixed headers, respond.
send(c, payload, status, headers) ==
  LET body == CASE payload.type \in {"string", "binary"} -> payload.value
                [] payload.type = "undefined" -> <<"undefined">>
                [] payload.type = "array" -> JSONStringifyArray(payload.value)
                [] payload.type = "number" -> <<ToString(payload.value)>>
                [] payload.type = "boolean" ->
                     <<BooleanToString(payload.value)>>
                [] OTHER -> JSONStringify(payload.value)
      h1 == HeadersSet(headers, "connection", "keep-alive")
      h2 == HeadersSet(h1, "date", "now")
      h3 == HeadersSet(h2, "x-powered-by", appStatus)
      h4 == IF corsEnabled
              THEN HeadersSet(HeadersSet(HeadersSet(h3,
                     "access-control-allow-origin", "*"),
                     "access-control-allow-headers", "*"),
                     "access-control-allow-methods", "*")
              ELSE h3
  IN Emit(c, Response("send", status, h4, body))

\* A send that sets the staged content type on the headers it is passed.
requestSend_KeepHeaders(c, payload, status, headers) ==
  LET st == IF c.request.httpStatus # 0 THEN c.request.httpStatus ELSE 200
      h == IF c.request.contentType # ""
             THEN HeadersSet(headers, CONTENT_TYPE, c.request.contentType)
             ELSE headers
  IN send(c, payload, st, h)

\* A send that commits the status it is passed when it is passed one.
requestSend_StatusArg(c, payload, status, headers) ==
  LET st == IF status # 0 THEN status
            ELSE IF c.request.httpStatus # 0 THEN c.request.httpStatus
            ELSE 200
      h == IF c.request.contentType # ""
             THEN HeadersSet(NoHeaders, CONTENT_TYPE, c.request.contentType)
             ELSE headers
  IN send(c, payload, st, h)

\* request.send of transformRequest: the staged status and content type.
requestSend(c, payload, status, headers) ==
  LET st == IF c.request.httpStatus # 0 THEN c.request.httpStatus ELSE 200
      h == IF c.request.contentType # ""
             THEN HeadersSet(NoHeaders, CONTENT_TYPE, c.request.contentType)
             ELSE headers
  IN send(c, payload, st, h)

\* request.json of transformRequest.
requestJson(c, payload) ==
  LET h == HeadersSet(NoHeaders, CONTENT_TYPE, "application/json")
      st == IF c.request.httpStatus # 0 THEN c.request.httpStatus ELSE 200
  IN [send(c, payload, st, h) EXCEPT
        !.log[Len(c.log) + 1].kind = "json"]

\* request.type of transformRequest.
requestType(c, contentType) ==
  [c EXCEPT !.request.contentType = contentType]

\* request.status of transformRequest.
requestStatus(c, status) == [c EXCEPT !.request.httpStatus = status]

\* Fastro.handleRedirect, behind request.redirect.
handleRedirect(c, url, status) ==
  Emit(c, Response("redirect", status,
                   HeadersSet(NoHeaders, "location", "url"), <<>>))

\* -------------------------------------------------------------- validation

\* validateObject of utils.ts: every field the schema requires is present.
validateObject(target, schema) ==
  \A k \in schema : k \in DOMAIN target /\ target[k] # "null"

\* Fastro.validateHeaders
validateHeaders(c, headers, schema) ==
  LET target == [k \in schema |-> IF k \in headers THEN "value" ELSE "null"]
  IN IF validateObject(target, schema)
       THEN c
       ELSE Throw(c, Error(<<"VALIDATE", "_HEADERS_ERROR: ", "invalid">>))

\* The first entry of a parametrized list whose url satisfies pred, or 0:
\* const [x] = list.filter(...)
First(list, Pred(_)) ==
  IF \E i \in 1..Len(list) : Pred(list[i].url)
    THEN CHOOSE i \in 1..Len(list) :
           Pred(list[i].url) /\ \A j \in 1..(i - 1) : ~Pred(list[j].url)
    ELSE 0

\* Fastro.validateParams: ok, or the message of the error thrown.
validateParams(params, url) ==
  LET Same(u) == u = url
      i == First(dynamicController, Same)
      schema == IF i = 0 THEN NoSchema
                ELSE ModuleFile(dynamicController[i].controller).paramsSchema
      target == [k \in {ToString(j - 1) : j \in 1..Len(params)} |-> "value"]
  IN IF schema # NoSchema /\ ~validateObject(target, schema)
       THEN Error(<<"VALIDATE", "_PARAMS_ERROR: ", "invalid">>)
       ELSE NoError

\* Fastro.getParams: [err, value]
getParams(incoming) ==
  LET params == Split(Tail(incoming), "/")
      e == validateParams(params, incoming)
  IN IF e.thrown
       THEN [err |-> [e EXCEPT !.message = <<"GET_PARAMS_ERROR: ">> \o @],
             value |-> <<>>]
       ELSE [err |-> NoError, value |-> params]

\* The object getQuery builds from the pairs: obj[key] = value.
RECURSIVE QueryObject(_, _)
QueryObject(queryPair, obj) ==
  IF queryPair = <<>> THEN obj
  ELSE LET kv == Split(queryPair[1], "=")
           key == kv[1]
           value == IF Len(kv) > 1 THEN kv[2] ELSE <<"undefined">>
           at == {i \in 1..Len(obj) : obj[i][1] = key}
       IN QueryObject(Tail(queryPair),
            IF at = {} THEN Append(obj, <<key, value>>)
            ELSE [obj EXCEPT ![CHOOSE i \in at : TRUE] = <<key, value>>])

ObjectGet(obj, key) ==
  IF \E i \in 1..Len(obj) : obj[i][1] = key
    THEN obj[CHOOSE i \in 1..Len(obj) : obj[i][1] = key][2]
    ELSE <<"undefined">>

\* Fastro.validateQuery: ok, or the error thrown.
validateQuery(query, url) ==
  LET In(u) == Includes(url, u)
      i == First(dynamicController, In)
      m == ModuleFile(dynamicController[i].controller)
      target == [k \in {query[j][1][1] : j \in 1..Len(query)} |-> "value"]
  IN IF i # 0 /\ m.paramsSchema # NoSchema
          /\ ~validateObject(target, m.querySchema)
       THEN Error(<<"VALIDATE", "_QUERY_ERROR: ", "invalid">>)
       ELSE NoError

\* getQuery without the selection of the named key (lines 354-358).
getQuery_AllPairs(key, url) ==
  LET parts == Split(url, "?")
      query == IF Len(parts) > 1 THEN parts[2] ELSE <<>>
      obj == QueryObject(Split(query, "&"), <<>>)
      e == validateQuery(obj, url)
      Fail(msg) == [err |-> Error(<<"GET_QUERY_ERROR: ">> \o msg),
                    value |-> <<>>]
  IN IF url = <<>> THEN Fail(<<"Url empty">>)
     ELSE IF query = <<>> THEN Fail(<<"Query not found">>)
     ELSE IF e.thrown THEN Fail(e.message)
     ELSE [err |-> NoError, value |-> obj]

\* Fastro.getQuery: [err, value]; key is <<>> when no name is given.
getQuery(key, url) ==
  LET parts == Split(url, "?")
      query == IF Len(parts) > 1 THEN parts[2] ELSE <<>>
      obj == QueryObject(Split(query, "&"), <<>>)
      e == validateQuery(obj, url)
      Fail(msg) == [err |-> Error(<<"GET_QUERY_ERROR: ">> \o msg),
                    value |-> <<>>]
  IN IF url = <<>> THEN Fail(<<"Url empty">>)
     ELSE IF query = <<>> THEN Fail(<<"Query not found">>)
     ELSE IF e.thrown THEN Fail(e.message)
     ELSE IF key # <<>>
       THEN [err |-> NoError, value |-> <<<<key, ObjectGet(obj, key)>>>>]
       ELSE [err |-> NoError, value |-> obj]

\* ----------------------------------------------------------------- payload

\* The last element of a non-empty sequence.
Last(q) == q[Len(q)]

\* One member of a JSON object text, key : value, as a pair.
Member(text) == <<<<text[1]>>, <<text[3]>>>>

IsMember(text) == Len(text) = 3 /\ text[2] = ":"

\* JSON.parse of the text of a flat object: [err, value], the value a
\* sequence of pairs in the order of the text.
JSONParse(text) ==
  LET inner == SubSeq(text, 2, Len(text) - 1)
      members == IF inner = <<>> THEN <<>> ELSE Split(inner, ",")
  IN IF /\ Len(text) >= 2
        /\ Head(text) = "{"
        /\ Last(text) = "}"
        /\ \A i \in 1..Len(members) : IsMember(members[i])
       THEN [err |-> NoError,
             value |-> [i \in 1..Len(members) |-> Member(members[i])]]
       ELSE [err |-> Error(<<"Unexpected token in JSON">>), value |-> <<>>]

\* Fastro.validateJsonPayload: ok, or the error thrown.
validateJsonPayload(payload, url) ==
  LET id == MapGet(controller, url)
      target == [k \in {payload[j][1][1] : j \in 1..Len(payload)} |-> "value"]
  IN IF /\ id # ""
        /\ ModuleFile(id).bodySchema # NoSchema
        /\ ~validateObject(target, ModuleFile(id).bodySchema)
       THEN Error(<<"VALIDATE", "_JSON_PAYLOAD_ERROR: ", "invalid">>)
       ELSE NoError

\* The catch block of getPayload.
PayloadError(error) ==
  [err |-> [error EXCEPT !.message = <<"GET_PAYLOAD_ERROR: ">> \o @],
   value |-> Undefined]

\* The application/json branch of getPayload once the body is parsed.
JsonPayload(parsed, e) ==
  IF parsed.err.thrown THEN PayloadError(parsed.err)
  ELSE IF e.thrown THEN PayloadError(e)
  ELSE [err |-> NoError, value |-> Obj(parsed.value)]

\* String.prototype.replace(sub, ""): the first occurrence is removed.
Replace(s, sub) ==
  IF sub # <<>> /\ Includes(s, sub)
    THEN LET i == CHOOSE j \in 1..Len(s) :
                    /\ j + Len(sub) - 1 <= Len(s)
                    /\ SubSeq(s, j, j + Len(sub) - 1) = sub
                    /\ \A k \in 1..(j - 1) :
                         SubSeq(s, k, k + Len(sub) - 1) # sub
         IN SubSeq(s, 1, i - 1) \o SubSeq(s, i + Len(sub), Len(s))
    ELSE s

\* decodeURIComponent, token by token: %20 is a space.
decodeURIComponent(text) ==
  [i \in 1..Len(text) |-> IF text[i] = "x%20y" THEN "x y" ELSE text[i]]

\* The body of the forEach of handleFormUrlEncoded for one part: [err,
\* value], the value the object pushed, as its sequence of pairs.
FormPart(i) ==
  IF Includes(i, <<"=">>)
    THEN [err |-> NoError,
          value |-> <<<<decodeURIComponent(Split(i, "=")[1]),
                        decodeURIComponent(Split(i, "=")[2])>>>>]
    ELSE JSONParse(i)

\* The end of handleFormUrlEncoded: data by its length, or the error of the
\* first part that threw, prefixed by the catch block.
FormData(parts) ==
  LET bad == {i \in 1..Len(parts) : parts[i].err.thrown}
      data == [i \in 1..Len(parts) |-> parts[i].value]
  IN IF bad # {}
       THEN [err |-> [parts[CHOOSE i \in bad : \A j \in bad : i <= j].err
                        EXCEPT !.message =
                          <<"HANDLE_FORM_URL_ENCODED_ERROR: ">> \o @],
             value |-> Undefined]
     ELSE IF Len(data) > 1
       THEN [err |-> NoError, value |-> [type |-> "array", value |-> data]]
     ELSE IF Len(data) = 1 THEN [err |-> NoError, value |-> Obj(data[1])]
     ELSE [err |-> NoError, value |-> Undefined]

\* Fastro.handleFormUrlEncoded: [err, value].
handleFormUrlEncoded(req, contentType) ==
  LET body == Split(Replace(req.body, contentType), "&")
  IN FormData([i \in 1..Len(body) |-> FormPart(body[i])])

\* Fastro.getPayload for a form, JSON or plain-text body: [err, value].  The
\* promise of handleFormUrlEncoded is returned without await, so the catch
\* block of getPayload does not see its rejection.
getPayload(requestServer) ==
  IF Includes(requestServer.mime, <<"application/x-www-form-urlencoded">>)
    THEN handleFormUrlEncoded(requestServer, requestServer.mime)
  ELSE IF Includes(requestServer.mime, <<"application/json">>)
    THEN JsonPayload(JSONParse(requestServer.body),
                     validateJsonPayload(JSONParse(requestServer.body).value,
                                         requestServer.url))
    ELSE [err |-> NoError, value |-> Str(requestServer.body)]

\* ---------------------------------------------------------------- handlers

\* A suspended continuation: micro when it resumes before the event loop
\* turns (an await of a value already there).
Task(kind, who, payload, micro) ==
  [kind |-> kind, who |-> who, payload |-> payload, micro |-> micro]

Suspend(c, t) == [c EXCEPT !.tasks = Append(@, t)]

\* A promise nobody awaits is rejected: the error goes no further.
Rejected(c, who, error) ==
  [Emit(c, Event("rejected", error.name, who)) EXCEPT !.err = NoError]

\* The statements after one that may throw: skipped when it threw.
Bind(c, Rest(_)) == IF c.err.thrown THEN c ELSE Rest(c)

\* Wraps what a try block threw: catch (error) { throw createError(...) }
Catch(c, name) ==
  IF c.err.thrown THEN [c EXCEPT !.err = createError(name, @)] ELSE c

\* The body of the handler of querybyname.controller.ts up to its await.
QueryByName(c, id, q) ==
  IF q.err.thrown
    THEN Rejected(c, id, q.err)
    ELSE Suspend(c, Task("send", id, Obj(q.value), TRUE))

\* The body of a controller's handler.
\*   send        request.send of a text
\*   asyncQuery  services/hello/v1/querybyname.controller.ts: an async
\*               function, await request.getQuery("name"), then send
\*   perRequest  json, redirect or a throw, as the request says
HandlerBody(c, id, b) ==
  CASE b = "send" -> requestSend(c, Str(<<"hello">>), 0, NoHeaders)
    [] b = "asyncQuery" ->
         QueryByName(c, id, getQuery(<<"name">>, c.request.url))
    [] b = "perRequest" /\ c.request.handler = "json" ->
         requestJson(c, Obj(<<<<<<"ok">>, <<"yes">>>>>>))
    [] b = "perRequest" /\ c.request.handler = "redirect" ->
         handleRedirect(c, <<"/">>, 302)
    [] OTHER -> Throw(c, Error(<<"boom">>))

\* controller.default(request)
InvokeController(c, kind, id) ==
  HandlerBody(Emit(c, Event("handler", kind, id)), id,
              ModuleFile(id).behaviour)

\* Fastro.renderComponent and the send of sendHTML.
RenderAndSend(c, id) ==
  requestSend(requestType(c, "text/html"), Str(<<"<html>", id>>), 0,
              NoHeaders)

\* props = page.props; props.url = request.url: a write to the object the
\* page module exports.
SetUrl(c, id) == [c EXCEPT !.props[id].url = c.request.url]

\* props.params = request.getParams()
SetParams(c, id, params) == [c EXCEPT !.props[id].params = params]

\* sendHTML from its entry up to its first await, or to its end.
SendHTMLBody(c, id, props, p) ==
  CASE props = "function" -> Suspend(c, Task("props", id, Undefined, FALSE))
    [] props = "object" /\ p.err.thrown ->
         Rejected(SetUrl(c, id), id, createError("SEND_HTML_ERROR", p.err))
    [] props = "object" ->
         RenderAndSend(SetParams(SetUrl(c, id), id, p.value), id)
    [] OTHER -> RenderAndSend(c, id)

\* Fastro.sendHTML: an async function nobody awaits; what it throws
\* rejects its promise.
sendHTML(c, kind, id) ==
  SendHTMLBody(Emit(c, Event("handler", kind, id)), id, ModuleFile(id).props,
               getParams(c.request.url))

\* ----------------------------------------------------------------- routing

\* The content type handleStaticFile infers from the url.
StaticHeader(url) ==
  LET Has(ext) == Includes(url, <<ext>>)
      Type(t) == HeadersSet(NoHeaders, CONTENT_TYPE, t)
  IN CASE Has(".svg") -> Type("image/svg+xml")
       [] Has(".png") -> Type("image/png")
       [] Has(".jpeg") -> Type("image/jpeg")
       [] Has(".css") -> Type("text/css")
       [] Has(".html") -> Type("text/html")
       [] Has(".json") -> Type("application/json")
       [] Has("favicon.ico") -> Type("image/ico")
       [] OTHER -> NoHeaders

\* Fastro.handleStaticFile
handleStaticFile(c) ==
  IF MapGet(staticFiles, c.request.url) = ""
    THEN Throw(c, createError("HANDLE_STATIC_FILE_ERROR", Error(NOT_FOUND)))
    ELSE requestSend(Emit(c, Event("handler", "static", "")),
                     Str(<<MapGet(staticFiles, c.request.url)>>), 200,
                     StaticHeader(c.request.url))

\* A filter that hands back its last match instead of its first.
FirstIncluded_Last(list, url) ==
  LET Hits == {i \in 1..Len(list) : Includes(url, list[i].url)}
  IN IF Hits = {} THEN 0 ELSE CHOOSE i \in Hits : \A j \in Hits : j <= i

\* const [x] = list.filter((e) => url.includes(e.url)): its index, or 0.
FirstIncluded(list, url) ==
  LET In(u) == Includes(url, u) IN First(list, In)

DynamicPageAt(c, i) ==
  IF i = 0 THEN handleStaticFile(c)
  ELSE sendHTML(c, "dynamicPage", dynamicPage[i].page)

\* Fastro.handleDynamicPage
handleDynamicPage(c) ==
  DynamicPageAt(c, FirstIncluded(dynamicPage, c.request.url))

\* A page lookup that tries the parametrized pages before the exact ones.
handlePage_DynamicFirst(c) ==
  IF FirstIncluded(dynamicPage, c.request.url) # 0 THEN handleDynamicPage(c)
  ELSE IF MapGet(pages, c.request.url) = "" THEN handleStaticFile(c)
  ELSE sendHTML(c, "page", MapGet(pages, c.request.url))

\* Fastro.handlePage
handlePage(c) ==
  IF MapGet(pages, c.request.url) = "" THEN handleDynamicPage(c)
  ELSE sendHTML(c, "page", MapGet(pages, c.request.url))

\* Checks that leave the methods list out.
CheckOptions_AnyMethod(c, options) ==
  IF options.headers # NoSchema
    THEN validateHeaders(c, c.request.headers, options.headers)
  ELSE c

\* The method and header checks of handleRoute, handleDynamicParams and
\* handleMiddleware.
CheckOptions(c, options) ==
  IF options.methods # NoMethods /\ c.request.method \notin options.methods
    THEN Throw(c, Error(NOT_FOUND))
  ELSE IF options.headers # NoSchema
    THEN validateHeaders(c, c.request.headers, options.headers)
  ELSE c

\* The handler of a controller, then its checks.
CheckAndInvoke_HandlerFirst(c, kind, id) ==
  Bind(InvokeController(c, kind, id),
       LAMBDA x : CheckOptions(x, ModuleFile(id)))

\* The checks of a controller, then its handler.
CheckAndInvoke(c, kind, id) ==
  Bind(CheckOptions(c, ModuleFile(id)),
       LAMBDA x : InvokeController(x, kind, id))

DynamicParamsAt(c, i) ==
  IF i = 0 THEN handlePage(c)
  ELSE CheckAndInvoke(c, "dynamicController",
                      dynamicController[i].controller)

\* Fastro.handleDynamicParams
handleDynamicParams(c) ==
  Catch(DynamicParamsAt(c, FirstIncluded(dynamicController, c.request.url)),
        "HANDLE_DYNAMIC_PARAMS_ERROR")

\* A lookup that tries the parametrized controllers before the exact one.
RouteAt_ParamsFirst(c, id) ==
  IF id = "" \/ FirstIncluded(dynamicController, c.request.url) # 0
    THEN handleDynamicParams(c)
  ELSE CheckAndInvoke(c, "controller", id)

\* The body of handleRoute's try block once the controller table was read.
RouteAt(c, id) ==
  IF id = "" THEN handleDynamicParams(c)
  ELSE CheckAndInvoke(c, "controller", id)

\* Fastro.handleRoute
handleRoute(c) ==
  Catch(RouteAt(Emit(c, Event("route", "", "")),
                MapGet(controller, c.request.url)),
        "HANDLE_ROUTE_ERROR")

\* A chain in which only the continuation of the last registered middleware
\* enters the routing step.
MiddlewareBody_LastRoutes(c, key, act) ==
  CASE act = "next" /\ key = middlewares[Len(middlewares)] -> handleRoute(c)
    [] act = "nextError" -> Throw(c, Error(<<"Middleware error: ", key>>))
    [] OTHER -> c

\* The body of a middleware function, by what it does with next.
MiddlewareBody(c, key, act) ==
  CASE act = "next" -> handleRoute(c)
    [] act = "nextError" -> Throw(c, Error(<<"Middleware error: ", key>>))
    [] OTHER -> c

\* middleware.default(request, next)
InvokeMiddleware(c, key) ==
  MiddlewareBody(Emit(c, Event("middleware", "", key)), key,
                 c.request.act[key])

RECURSIVE MiddlewareLoop_StopOnReturn(_, _)
\* A chain that ends at a middleware that returns without calling next.
MiddlewareLoop_StopOnReturn(c, i) ==
  IF i > Len(middlewares) THEN c
  ELSE Bind(Bind(CheckOptions(c, MiddlewareFile(middlewares[i])),
                 LAMBDA x : InvokeMiddleware(x, middlewares[i])),
            LAMBDA y : IF c.request.act[middlewares[i]] = "return" THEN y
                       ELSE MiddlewareLoop_StopOnReturn(y, i + 1))

RECURSIVE MiddlewareLoop(_, _)
\* The forEach of handleMiddleware, from the i-th entry on.
MiddlewareLoop(c, i) ==
  IF i > Len(middlewares) THEN c
  ELSE Bind(Bind(CheckOptions(c, MiddlewareFile(middlewares[i])),
                 LAMBDA x : InvokeMiddleware(x, middlewares[i])),
            LAMBDA y : MiddlewareLoop(y, i + 1))

\* Fastro.handleMiddleware
handleMiddleware(c) == Catch(MiddlewareLoop(c, 1), "HANDLE_MIDDLEWARE_ERROR")

\* Fastro.handleRoot
handleRoot(c) ==
  requestSend(Emit(c, Event("handler", "root", "")),
              IF MapGet(staticFiles, IndexHtml) = ""
                THEN Str(<<"Fastro v", FASTRO_VERSION>>)
                ELSE Str(<<MapGet(staticFiles, IndexHtml)>>),
              0, NoHeaders)

\* A mapping without the test for a validation error.
ErrorStatus_NoValidate(message) ==
  IF Includes(message, NOT_FOUND) THEN 404 ELSE 500

\* The status handleRequestError gives a message.
ErrorStatus(message) ==
  LET status0 == 500
      status1 == IF Includes(message, NOT_FOUND) THEN 404 ELSE status0
  IN IF Includes(message, <<"VALIDATE">>) THEN 400 ELSE status1

\* JSON.stringify({ error: true, message })
ErrorEnvelope(message) ==
  <<"{", "\"error\":true", ",", "\"message\":">> \o message \o <<"}">>

\* Fastro.handleRequestError
handleRequestError(c) ==
  [Emit(c, Response("error", ErrorStatus(c.err.message),
                    HeadersSet(NoHeaders, CONTENT_TYPE, "application/json"),
                    ErrorEnvelope(c.err.message)))
   EXCEPT !.err = NoError]

\* Fastro.transformRequest
transformRequest(serverRequest) ==
  [serverRequest EXCEPT !.container = container,
                        !.httpStatus = 0, !.contentType = ""]

\* The context handleRequest starts from.
Context(serverRequest) ==
  [request |-> transformRequest(serverRequest), log |-> <<>>,
   tasks |-> <<>>, err |-> NoError, props |-> pageProps]

\* A dispatch that goes to the routing step past the middleware.
Dispatch_NoMiddleware(c) ==
  IF c.request.url = <<"/">> THEN handleRoot(c) ELSE handleRoute(c)

\* The try block of handleRequest.
Dispatch(c) ==
  IF c.request.url = <<"/">> THEN handleRoot(c)
  ELSE IF Len(middlewares) > 0 THEN handleMiddleware(c)
  ELSE handleRoute(c)

\* The catch block of handleRequest.
OnError(c) == IF c.err.thrown THEN handleRequestError(c) ELSE c

\* Fastro.handleRequest, up to its return.
handleRequest(serverRequest) == OnError(Dispatch(Context(serverRequest)))

\* ------------------------------------------------------------ request loop

\* Events of a kind in the log.
Events(l, ev) == {i \in 1..Len(l) : l[i].ev = ev}

Invoked(l, id) == \E i \in Events(l, "handler") : l[i].who = id

Ran(l, key) == \E i \in Events(l, "middleware") : l[i].who = key

\* The accept loop of listen delivers a request: handleRequest runs to its
\* return.  act and handler say what the user code does with this request;
\* they are left at their defaults where that code does not run.
HandleRequest(url, method, headers, act, handler) ==
  /\ listening
  /\ request = NoRequest
  /\ \E c \in {handleRequest([NoRequest EXCEPT
                     !.url = url, !.method = method, !.headers = headers,
                     !.act = act, !.handler = handler])} :
       /\ \A key \in DOMAIN act : ~Ran(c.log, key) => act[key] = "next"
       /\ handler # "json"
            => \E id \in ModuleIds :
                 ModuleFile(id).behaviour = "perRequest" /\ Invoked(c.log, id)
       /\ request' = c.request
       /\ log' = c.log
       /\ tasks' = c.tasks
       /\ pageProps' = c.props
  /\ UNCHANGED <<startup, tables>>

\* A suspended continuation resumes.
\*   send   the rest of the async handler after its await: request.send
\*   props  the rest of sendHTML after await page.props(request), which
\*          resolved (ok) or rejected
Resume(c, t, ok) ==
  CASE t.kind = "send" -> requestSend(c, t.payload, 0, NoHeaders)
    [] t.kind = "props" /\ ok -> RenderAndSend(c, t.who)
    [] OTHER ->
         Rejected(c, t.who,
                  createError("SEND_HTML_ERROR", Error(<<"props failed">>)))

RunTask(ok) ==
  /\ tasks # <<>>
  /\ ~ok => Head(tasks).kind = "props"
  /\ \E c \in {Resume([request |-> request, log |-> log,
                        tasks |-> Tail(tasks), err |-> NoError,
                        props |-> pageProps],
                       Head(tasks), ok)} :
       /\ request' = c.request
       /\ log' = c.log
       /\ tasks' = c.tasks
       /\ pageProps' = c.props
  /\ UNCHANGED <<startup, tables>>

\* The request is over: nothing of it is left to run, its context is
\* dropped and the accept loop takes the next request.
EndRequest ==
  /\ request # NoRequest
  /\ tasks = <<>>
  /\ request' = NoRequest
  /\ log' = <<>>
  /\ tasks' = <<>>
  /\ UNCHANGED <<startup, tables, pageProps>>

Startup ==
  \/ ReadConfig
  \/ GetAppStatus
  \/ ImportMiddleware
  \/ ReadHtmlTemplate
  \/ ImportController
  \/ ReadStaticFiles
  \/ ImportContainer
  \/ Listen

Imported ==
  \/ \E name \in MiddlewareNames : MiddlewareImported(name)
  \/ \E id \in ModuleIds : NativeImported(id)
  \/ ContainerImported

\* Whether routing throws for a request, and the entries of the
\* middleware table whose options reject it.
RouteThrows(serverRequest) == handleRoute(Context(serverRequest)).err.thrown

Refused(serverRequest) ==
  {i \in 1..Len(middlewares) :
     CheckOptions(Context(serverRequest),
                  MiddlewareFile(middlewares[i])).err.thrown}

\* The behaviours of the middleware functions worth telling apart for a
\* request: a function the chain never reaches is left at "next".  The
\* chain stops at the first entry whose options reject the request, which
\* passes an error to next, or which calls next when routing throws.
MiddlewareActs(url, throws, refused) ==
  {a \in [{middlewares[i] : i \in 1..Len(middlewares)}
            -> MiddlewareBehaviours] :
     \A j \in 1..Len(middlewares) :
       (\/ url = <<"/">>
        \/ j \in refused
        \/ \E i \in 1..(j - 1) :
             \/ i \in refused
             \/ a[middlewares[i]] = "nextError"
             \/ a[middlewares[i]] = "next" /\ throws)
         => a[middlewares[j]] = "next"}

\* The handler behaviours worth telling apart for a request.
HandlerActs(url) ==
  IF \E i \in 1..Len(dynamicController) :
       Includes(url, dynamicController[i].url)
    THEN HandlerBehaviours
    ELSE {"json"}

ServerRequest(url, method, headers, handler) ==
  [NoRequest EXCEPT !.url = url, !.method = method, !.headers = headers,
                    !.handler = handler]

\* The accept loop: every request the transport can deliver, with every
\* behaviour of the user code worth telling apart.
Accept ==
  /\ listening
  /\ request = NoRequest
  /\ \E url \in Urls, method \in Methods, headers \in HeaderSets :
       \E handler \in HandlerActs(url) :
         \E throws \in {RouteThrows(ServerRequest(url, method, headers,
                                                  handler))},
            refused \in {Refused(ServerRequest(url, method, headers,
                                               handler))} :
           \E act \in MiddlewareActs(url, throws, refused) :
             HandleRequest(url, method, headers, act, handler)

Serve ==
  \/ Accept
  \/ \E ok \in BOOLEAN : RunTask(ok)
  \/ EndRequest

Next == Startup \/ Imported \/ Serve

Spec == Init /\ [][Next]_vars

\* ----------------------------------------------------------- registration
\* The controller import of initApp on a project directory that also holds
\* the files whose keys coincide, up to the last registration.

\* initApp has come to importController; the project has no middleware.
RegisterInit ==
  /\ stage = "importController"
  /\ appStatus = FASTRO_VERSION
  /\ pendingMiddleware = {}
  /\ pendingModules = {}
  /\ pendingContainer = FALSE
  /\ middlewares = <<>>
  /\ controller = EmptyMap
  /\ dynamicController = <<>>
  /\ pages = EmptyMap
  /\ dynamicPage = <<>>
  /\ staticFiles = EmptyMap
  /\ templateFiles = TemplateDir
  /\ container = "undefined"
  /\ listening = FALSE
  /\ request = NoRequest
  /\ log = <<>>
  /\ tasks = <<>>
  /\ pageProps = NoProps

\* importController on that directory: one nativeImport per file.
ImportColliding ==
  /\ stage = "importController"
  /\ pendingModules' = ModuleIds \cup CollidingIds
  /\ stage' = "readStaticFiles"
  /\ UNCHANGED <<appStatus, pendingMiddleware, pendingContainer, listening,
                 tables, inflight, pageProps>>

RegisterNext ==
  \/ ImportColliding
  \/ \E id \in ModuleIds \cup CollidingIds : NativeImported(id)

SpecRegister == RegisterInit /\ [][RegisterNext]_vars

\* ------------------------------------------------------------ served project
\* The server once every import of initApp has resolved, on a project with
\* one of the static directories: the accept loop and nothing else.

\* Every middleware, controller and page file is registered, the
\* parametrized controllers in either order; the static files are read.
SettledInit ==
  /\ stage = "serving"
  /\ appStatus = FASTRO_VERSION
  /\ pendingMiddleware = {}
  /\ pendingModules = {}
  /\ pendingContainer = FALSE
  /\ middlewares = [i \in 1..NumMiddleware |-> MiddlewareName(i)]
  /\ controller = MapSet(EmptyMap, RouteKey("c_ab"), "c_ab")
  /\ dynamicController \in
       {<<[url |-> RouteKey(a), controller |-> a],
          [url |-> RouteKey(b), controller |-> b]>>
        : a \in {"d_a", "d_b"}, b \in {"d_a", "d_b"}} \
       {<<[url |-> RouteKey(a), controller |-> a],
          [url |-> RouteKey(a), controller |-> a]>> : a \in {"d_a", "d_b"}}
  /\ pages = MapSet(EmptyMap, RouteKey("p_pq"), "p_pq")
  /\ dynamicPage = <<[url |-> RouteKey("dp_p"), page |-> "dp_p"]>>
  /\ staticFiles \in StaticDirs
  /\ templateFiles = TemplateDir
  /\ container = "deps"
  /\ listening = TRUE
  /\ request = NoRequest
  /\ log = <<>>
  /\ tasks = <<>>
  /\ pageProps = NoProps

SpecSettled == SettledInit /\ [][Serve]_vars

\* ------------------------------------------------------------ request API
\* A handler and the Request it was handed: the handler calls status and
\* type any number of times, in any order, and then one of the other
\* methods of the Request.  Each call is logged before what it does.

\* The status codes and content types a handler stages.
StatusCodes == {201, 404}
ContentTypes == {"text/plain", "text/css"}

\* A call of a method of the Request, with its numeric or text argument.
Call(method, number, text) ==
  [Event("call", method, text) EXCEPT !.status = number]

Calls(l, method) == {i \in Events(l, "call") : l[i].kind = method}

\* The handler has not yet made its last call.
ApiOpen ==
  /\ request # NoRequest
  /\ Events(log, "call") \subseteq Calls(log, "status") \cup Calls(log, "type")

ApiContext(call) ==
  [request |-> request, log |-> Append(log, call), tasks |-> <<>>,
   err |-> NoError, props |-> pageProps]

\* The call returns: the Request and what was written are as it left them.
ApiReturn(c) ==
  /\ request' = c.request
  /\ log' = c.log
  /\ UNCHANGED <<startup, tables, tasks, pageProps>>

\* What a call hands back to the handler: a value, or the error it threw.
Result(method, r) ==
  IF r.err.thrown
    THEN [Event("threw", r.err.name, method) EXCEPT !.body = r.err.message]
  ELSE IF r.value.type = "object"
    THEN [Event("result", "object", method) EXCEPT
            !.headers = {r.value.value[i] : i \in 1..Len(r.value.value)}]
  ELSE [Event("result", r.value.type, method) EXCEPT !.body = r.value.value]

\* The urls handlers are invoked for, one with a query string of two pairs.
TwoPairs == <<"/", "p", "?", "x", "=", "1", "&", "y", "=", "2">>

\* The key of a parametrized controller alone, and keys with a query.
ApiUrls ==
  Urls \cup {TwoPairs, <<"/", "b">>, <<"/", "a", "?", "x", "=", "1">>,
             <<"/", "b", "?", "x", "=", "1">>}

\* The names a handler asks getQuery for; "" is the call without a name.
QueryKeys == {"", "x", "y", "name"}

\* The content-type headers and the bodies the transport delivers.
Mimes ==
  {<<"application/json">>, <<"application/json", "; charset=utf-8">>,
   <<"text/plain">>}

Bodies ==
  {<<"{", "a", ":", "1", "}">>, <<"{", "b", ":", "1", "}">>, <<"{", "a">>}

\* The bodies of forms: one pair, two pairs, none.
FormBodies ==
  {<<"a", "=", "1">>, <<"a", "=", "1", "&", "b", "=", "x%20y">>, <<>>}

\* A GET without a body, or a POST with one.
Deliveries ==
  {[method |-> "GET", mime |-> <<>>, body |-> <<>>]}
    \cup {[method |-> "POST", mime |-> m, body |-> b]
           : m \in Mimes, b \in Bodies}
    \cup {[method |-> "POST",
           mime |-> <<"application/x-www-form-urlencoded">>, body |-> b]
           : b \in FormBodies}

\* handleRequest has built the Request and a handler is invoked with it.
ApiAccept(url, d) ==
  /\ listening
  /\ request = NoRequest
  /\ request' =
       transformRequest([ServerRequest(url, d.method, {}, "json")
                           EXCEPT !.mime = d.mime, !.body = d.body])
  /\ log' = <<Event("handler", "api", "")>>
  /\ UNCHANGED <<startup, tables, tasks, pageProps>>

\* request.status(code)
ApiStatus(code) ==
  /\ ApiOpen
  /\ Cardinality(Events(log, "call")) < MaxStaged
  /\ ApiReturn(requestStatus(ApiContext(Call("status", code, "")), code))

\* request.type(contentType)
ApiType(contentType) ==
  /\ ApiOpen
  /\ Cardinality(Events(log, "call")) < MaxStaged
  /\ ApiReturn(requestType(ApiContext(Call("type", 0, contentType)),
                            contentType))

\* The payloads a handler sends, by kind: "hello", the bytes of "hi",
\* undefined, [1, 2, 3], {a: "1"}, 42 and true.
PayloadKinds ==
  {"string", "binary", "undefined", "array", "object", "number", "boolean"}

SendPayload(kind) ==
  CASE kind = "string" -> Str(<<"hello">>)
    [] kind = "binary" -> [type |-> "binary", value |-> <<"0x68", "0x69">>]
    [] kind = "undefined" -> Undefined
    [] kind = "array" -> [type |-> "array", value |-> <<1, 2, 3>>]
    [] kind = "object" -> Obj(<<<<<<"a">>, <<"1">>>>>>)
    [] kind = "number" -> [type |-> "number", value |-> 42]
    [] kind = "boolean" -> [type |-> "boolean", value |-> TRUE]

\* request.send(payload) and request.send(payload, status)
ApiSend(status, kind) ==
  /\ ApiOpen
  /\ ApiReturn(requestSend(ApiContext(Call("send", status, kind)),
                            SendPayload(kind), status, NoHeaders))

\* await request.getPayload()
ApiGetPayload ==
  /\ ApiOpen
  /\ ApiReturn(Emit(ApiContext(Call("getPayload", 0, "")),
                    Result("getPayload", getPayload(request))))

\* request.getQuery(key) and request.getQuery()
ApiGetQuery(key) ==
  /\ ApiOpen
  /\ \E r \in {getQuery(IF key = "" THEN <<>> ELSE <<key>>, request.url)} :
       ApiReturn(Emit(ApiContext(Call("getQuery", 0, key)),
                      Result("getQuery",
                             [err |-> r.err, value |-> Obj(r.value)])))

\* request.getParams()
ApiGetParams ==
  /\ ApiOpen
  /\ \E r \in {getParams(request.url)} :
       ApiReturn(Emit(ApiContext(Call("getParams", 0, "")),
                      Result("getParams",
                             [err |-> r.err,
                              value |-> [type |-> "array",
                                         value |-> r.value]])))

\* The headers a handler passes to send: a content type and one more.
PassedHeaders == {<<CONTENT_TYPE, "text/html">>, <<"x-custom", "1">>}

\* request.send("hello", undefined, headers)
ApiSendHeaders ==
  /\ ApiOpen
  /\ ApiReturn(requestSend(
       ApiContext([Call("send", 0, "string") EXCEPT !.headers = PassedHeaders]),
       SendPayload("string"), 0, PassedHeaders))

ApiNext ==
  \/ \E url \in ApiUrls, d \in Deliveries : ApiAccept(url, d)
  \/ \E key \in QueryKeys : ApiGetQuery(key)
  \/ \E code \in StatusCodes : ApiStatus(code)
  \/ \E contentType \in ContentTypes : ApiType(contentType)
  \/ \E kind \in PayloadKinds : ApiSend(0, kind)
  \/ ApiSend(500, "string")
  \/ ApiSendHeaders
  \/ ApiGetPayload
  \/ ApiGetParams
  \/ EndRequest

\* The started server of the project directory without an index.html.
ApiInit == SettledInit /\ DOMAIN staticFiles = StaticDir

SpecApi == ApiInit /\ [][ApiNext]_vars

\* ================================================================== claims

\* A step of the accept loop: a request is taken and handled to the return
\* of handleRequest.  The tables are those the request was handled with.
Accepting == request = NoRequest /\ request' # NoRequest

Handled == request # NoRequest

Responses(l) == Events(l, "respond")

ErrorResponses(l) == {i \in Responses(l) : l[i].kind = "error"}

Handlers(l) == Events(l, "handler")

RouteEntered == Events(log, "route") # {}

\* The names of the middleware functions invoked, in order of invocation.
RECURSIVE MiddlewareRun(_)
MiddlewareRun(l) ==
  IF l = <<>> THEN <<>>
  ELSE IF Head(l).ev = "middleware"
    THEN <<Head(l).who>> \o MiddlewareRun(Tail(l))
    ELSE MiddlewareRun(Tail(l))

MethodAllowed(options) ==
  options.methods = NoMethods \/ request.method \in options.methods

HeadersValid(options) == options.headers \subseteq request.headers

\* The parametrized controllers whose key is a substring of the url, and the
\* one of them registered first.
Matching == {i \in 1..Len(dynamicController) :
               Includes(request.url, dynamicController[i].url)}

FirstMatching == CHOOSE i \in Matching : \A j \in Matching : i <= j

\* ------------------------------------------------------------------- C1
\* C1: for every request, whatever the middleware and the handler do, at
\* most one response is written to the transport.
C1_OneResponse == Cardinality(Responses(log)) <= 1

\* ------------------------------------------------------------------- C2
\* C2: if a middleware passes an error to its continuation, the handler the
\* request matches is never invoked for that request.
C2_ErrorAbortsRouting ==
  (\E i \in Events(log, "middleware") : request.act[log[i].who] = "nextError")
    => Handlers(log) = {}

\* ------------------------------------------------------------------- C3
\* C3 as stated: a request whose url is the key of an exact-match controller
\* and whose method is allowed invokes that controller's handler and no
\* other handler.
C3_ExactInvoked ==
  (/\ Handled
   /\ request.url \in DOMAIN controller
   /\ MethodAllowed(ModuleFile(MapGet(controller, request.url))))
    => /\ Invoked(log, controller[request.url])
       /\ \A i \in Handlers(log) : log[i].who = controller[request.url]

C3_Routed ==
  (/\ Handled
   /\ RouteEntered
   /\ request.url \in DOMAIN controller
   /\ MethodAllowed(ModuleFile(MapGet(controller, request.url)))
   /\ HeadersValid(ModuleFile(MapGet(controller, request.url))))
    => /\ Invoked(log, controller[request.url])
       /\ \A i \in Handlers(log) :
            log[i].kind = "controller" /\ log[i].who = controller[request.url]

\* C3 amended: when the routing step runs for a request whose url is the key
\* of an exact-match controller, whose method is allowed and whose headers
\* satisfy the controller's header schema, that controller's handler is
\* invoked and no other controller, page or static-file handler.
C3_ExactInvokedWhenRouted == [][Accepting => C3_Routed']_vars

\* An exact-match controller invoked behind a middleware, with both
\* parametrized controllers registered.
C3_Witness ==
  /\ Handled
  /\ request.url \in DOMAIN controller
  /\ Invoked(log, MapGet(controller, request.url))
  /\ Len(dynamicController) = 2
  /\ Len(middlewares) >= 1

\* ------------------------------------------------------------------- C4
C4_ExactFirst ==
  Handled =>
    /\ request.url \in DOMAIN controller
         => \A i \in Handlers(log) :
              /\ log[i].kind = "controller"
              /\ log[i].who = controller[request.url]
    /\ request.url \in DOMAIN pages
         => \A i \in Handlers(log) :
              log[i].kind \in {"page", "dynamicPage"}
                => log[i].kind = "page" /\ log[i].who = pages[request.url]

\* C4: a url that equals an exact-match controller key selects that
\* controller even when a parametrized controller's key is a substring of
\* it, and a url that equals an exact-match page key selects that page over
\* every parametrized page whose key is a substring of it.
C4_ExactBeforeParametrized == [][Accepting => C4_ExactFirst']_vars

\* An exact-match page rendered although a parametrized page's key is a
\* substring of the url.
C4_Witness ==
  /\ Handled
  /\ request.url \in DOMAIN pages
  /\ \E i \in 1..Len(dynamicPage) : Includes(request.url, dynamicPage[i].url)
  /\ \E i \in Handlers(log) :
       log[i].kind = "page" /\ log[i].who = MapGet(pages, request.url)

\* ------------------------------------------------------------------- C5
C5_FirstWins ==
  (/\ Handled
   /\ RouteEntered
   /\ request.url \notin DOMAIN controller
   /\ Matching # {})
    => /\ \A i \in Handlers(log) :
            /\ log[i].kind = "dynamicController"
            /\ log[i].who = dynamicController[FirstMatching].controller
       /\ (/\ MethodAllowed(
                ModuleFile(dynamicController[FirstMatching].controller))
           /\ HeadersValid(
                ModuleFile(dynamicController[FirstMatching].controller)))
            => Invoked(log, dynamicController[FirstMatching].controller)

\* C5: with no exact-match controller for the url, the parametrized
\* controllers whose key is a substring of the url match, and the handler
\* invoked is that of the one registered first.
C5_FirstRegisteredWins == [][Accepting => C5_FirstWins']_vars

\* Two parametrized controllers match and the one registered first, d_b, is
\* the one invoked.
C5_Witness ==
  /\ Handled
  /\ request.url \notin DOMAIN controller
  /\ Matching = {1, 2}
  /\ dynamicController[1].controller = "d_b"
  /\ Invoked(log, "d_b")
  /\ ~Invoked(log, "d_a")

\* ------------------------------------------------------------------- C6
\* C6 as stated: with a middleware registered, every registered middleware
\* is run for every request, in registration order, before the routing
\* step handles the request, whatever the url.
C6_AllRunFirst ==
  (Handled /\ Len(middlewares) > 0)
    => /\ MiddlewareRun(log) = middlewares
       /\ \A i \in Events(log, "route") :
            \A j \in Events(log, "middleware") : j < i

C6_Chain ==
  (Handled /\ Len(middlewares) > 0)
    => /\ request.url = <<"/">>
            => MiddlewareRun(log) = <<>> /\ ~RouteEntered
       /\ request.url # <<"/">>
            => /\ MiddlewareRun(log)
                    = SubSeq(middlewares, 1, Len(MiddlewareRun(log)))
               /\ ErrorResponses(log) = {}
                    => MiddlewareRun(log) = middlewares
               /\ \A i \in Events(log, "route") :
                    i > 1 /\ log[i - 1].ev = "middleware"

Resolved ==
  IF request.url \in DOMAIN controller THEN controller[request.url]
  ELSE IF Matching # {} THEN dynamicController[FirstMatching].controller
  ELSE ""

IsEnvelope(body) ==
  /\ Len(body) > 5
  /\ SubSeq(body, 1, 4) = <<"{", "\"error\":true", ",", "\"message\":">>
  /\ body[Len(body)] = "}"

EnvelopeMessage(body) == SubSeq(body, 5, Len(body) - 1)

C7_Refused ==
  (/\ Handled
   /\ RouteEntered
   /\ Resolved # ""
   /\ ~MethodAllowed(ModuleFile(Resolved)))
    => /\ ~Invoked(log, Resolved)
       /\ \E i \in ErrorResponses(log) :
            /\ log[i].status = 404
            /\ IsEnvelope(log[i].body)

\* C7: when the routing step resolves a request to a controller, exact-match
\* or parametrized, whose methods list does not hold the request's method,
\* the response is a 404 with the JSON error envelope and the controller's
\* handler is not invoked.
C7_MethodNotAllowed == [][Accepting => C7_Refused']_vars

\* A POST resolved to the parametrized controller d_a, which allows GET
\* only: answered 404.
C7_Witness ==
  /\ Handled
  /\ request.method = "POST"
  /\ request.url \notin DOMAIN controller
  /\ Resolved = "d_a"
  /\ \E i \in ErrorResponses(log) : log[i].status = 404

\* ------------------------------------------------------------------- C8
NothingMatches ==
  /\ Resolved = ""
  /\ request.url \notin DOMAIN pages
  /\ \A i \in 1..Len(dynamicPage) :
       ~Includes(request.url, dynamicPage[i].url)
  /\ request.url \notin DOMAIN staticFiles

C8_Mapped ==
  Handled =>
    /\ \A i \in ErrorResponses(log) :
         /\ log[i].headers = {<<CONTENT_TYPE, "application/json">>}
         /\ IsEnvelope(log[i].body)
         /\ log[i].status \in {400, 404, 500}
         /\ Includes(EnvelopeMessage(log[i].body), <<"VALIDATE">>)
              => log[i].status = 400
         /\ (/\ Includes(EnvelopeMessage(log[i].body), NOT_FOUND)
             /\ ~Includes(EnvelopeMessage(log[i].body), <<"VALIDATE">>))
              => log[i].status = 404
         /\ (/\ ~Includes(EnvelopeMessage(log[i].body), NOT_FOUND)
             /\ ~Includes(EnvelopeMessage(log[i].body), <<"VALIDATE">>))
              => log[i].status = 500
    /\ (/\ RouteEntered
        /\ Resolved # ""
        /\ MethodAllowed(ModuleFile(Resolved))
        /\ ~HeadersValid(ModuleFile(Resolved)))
         => \E i \in ErrorResponses(log) : log[i].status = 400
    /\ (RouteEntered /\ NothingMatches)
         => \E i \in ErrorResponses(log) : log[i].status = 404
    /\ (\E i \in Events(log, "middleware") :
          request.act[log[i].who] = "nextError")
         => \E i \in ErrorResponses(log) : log[i].status = 500
    /\ (/\ request.handler = "throw"
        /\ \E id \in ModuleIds :
             ModuleFile(id).behaviour = "perRequest" /\ Invoked(log, id))
         => \E i \in ErrorResponses(log) : log[i].status = 500

\* C8: every response of the error boundary has the JSON error envelope as
\* its body and application/json as its only header, and its status goes by
\* the kind of the error: 400 for a validation error (a controller's header
\* schema violated), 404 for NOT_FOUND (nothing matches the url), 500 for
\* every other (a middleware's error, a handler's throw).
C8_StatusByKind == [][Accepting => C8_Mapped']_vars

\* A request refused for its headers by the controller it resolves to,
\* answered 400 by the error boundary.
C8_Witness ==
  /\ Handled
  /\ Resolved # ""
  /\ \E i \in ErrorResponses(log) :
       /\ log[i].status = 400
       /\ Includes(EnvelopeMessage(log[i].body), <<"VALIDATE">>)

\* ------------------------------------------------------------------- C9
\* C9: when an error was raised while handling a request, in the handler or
\* in the rendering of a page, before or after a suspension point, and
\* nothing of the request is left to run, a JSON error response has been
\* written for it.
C9_ErrorsAnswered ==
  (Handled /\ tasks = <<>> /\ Events(log, "rejected") # {})
    => ErrorResponses(log) # {}

\* ------------------------------------------------------------------ C10
\* C10: no request is dispatched while a registration into the middleware
\* table, the route tables or the container is still to come.
C10_PopulatedBeforeServing ==
  Handled
    => pendingMiddleware = {} /\ pendingModules = {} /\ ~pendingContainer

\* ------------------------------------------------------------------ C11
\* A step that handles the request in flight: handleRequest up to its
\* return, or the continuation of one of its async functions.
HandlingStep == request' # NoRequest /\ inflight' # inflight

\* C11: a step that handles a request leaves the route tables, the props of
\* every page entry, the template store, the static-file store and the
\* container as they were.
C11_SharedStateUnchanged ==
  [][HandlingStep => UNCHANGED <<tables, pageProps>>]_vars

\* ------------------------------------------------------------------ C12
\* C12: in each of the four route tables every route key has at most one
\* handler entry.  The exact-match tables are maps; in the two parametrized
\* lists no two entries have the same url.
C12_OneEntryPerKey ==
  /\ \A i, j \in 1..Len(dynamicController) :
       dynamicController[i].url = dynamicController[j].url => i = j
  /\ \A i, j \in 1..Len(dynamicPage) :
       dynamicPage[i].url = dynamicPage[j].url => i = j

\* ------------------------------------------------------------------ C13
\* C13: a request for "/" is answered by the root step with the stored
\* content of /index.html when the static-file store holds one and with the
\* version banner otherwise, and no middleware, controller or page handler
\* is invoked for it.
C13_RootTerminal ==
  (Handled /\ request.url = <<"/">>)
    => /\ MiddlewareRun(log) = <<>>
       /\ \A i \in Handlers(log) : log[i].kind = "root"
       /\ \E i \in Responses(log) :
            log[i].body = IF IndexHtml \in DOMAIN staticFiles
                            THEN <<staticFiles[IndexHtml]>>
                            ELSE <<"Fastro v", FASTRO_VERSION>>

\* ------------------------------------------------------------------ C14
\* The last call of a method before position i of the log, or 0.
LastCall(l, method, i) ==
  IF \E j \in Calls(l, method) : j < i
    THEN CHOOSE j \in Calls(l, method) :
           j < i /\ \A k \in Calls(l, method) : k < i => k <= j
    ELSE 0

\* C14: every response written by send has the status of the last status
\* call before it, 200 when there was none, whatever status was passed to
\* send, and, when a content type was staged, the content type of the last
\* type call before it and no other.
C14_StagedCommitted ==
  \A i \in Responses(log) :
    log[i].kind = "send"
      => /\ log[i].status =
              IF LastCall(log, "status", i) = 0 THEN 200
              ELSE log[LastCall(log, "status", i)].status
         /\ LastCall(log, "type", i) # 0
              => {h \in log[i].headers : h[1] = CONTENT_TYPE}
                   = {<<CONTENT_TYPE, log[LastCall(log, "type", i)].who>>}

\* status(201), status(404), then send with a status argument of 500:
\* answered 404.
C14_Witness ==
  /\ Len(log) >= 5
  /\ log[Len(log)].ev = "respond" /\ log[Len(log)].status = 404
  /\ log[Len(log) - 1].kind = "send" /\ log[Len(log) - 1].status = 500
  /\ log[Len(log) - 2].kind = "status" /\ log[Len(log) - 2].status = 404
  /\ log[Len(log) - 3].kind = "status" /\ log[Len(log) - 3].status = 201

\* ------------------------------------------------------------------ C15
\* C15: every response written, by whichever path, carries the headers
\* Connection, Date and x-powered-by.
C15_StandardHeaders ==
  \A i \in Responses(log) :
    {"connection", "date", "x-powered-by"}
      \subseteq {h[1] : h \in log[i].headers}

\* ------------------------------------------------------------------ C16
\* The keys of the object a JSON text of the form { k : v , ... } denotes.
KeysOf(text) == {text[i] : i \in {j \in 1..(Len(text) - 1) : text[j + 1] = ":"}}

WellFormed(text) == text \in {<<"{", k, ":", "1", "}">> : k \in {"a", "b"}}

\* C16: getPayload on an application/json request whose body is a JSON
\* object, handled by the controller the url resolves to, hands back the
\* decoded object when that controller declares no body schema or the object
\* has the fields it requires, and throws a validation error when the
\* object lacks a field the controller's body schema requires.
C16_BodySchemaOfRoute ==
  (/\ Handled
   /\ Includes(request.mime, <<"application/json">>)
   /\ WellFormed(request.body)
   /\ Resolved # "")
    => \A i \in Calls(log, "getPayload") :
         IF ModuleFile(Resolved).bodySchema \subseteq KeysOf(request.body)
           THEN /\ log[i + 1].ev = "result"
                /\ {p[1][1] : p \in log[i + 1].headers} = KeysOf(request.body)
           ELSE /\ log[i + 1].ev = "threw"
                /\ Includes(log[i + 1].body, <<"VALIDATE">>)

\* ------------------------------------------------------------------ C17
\* The pairs key=value written in the query string of a url.
PairsOf(url) ==
  {<<<<url[j - 1]>>, <<url[j + 1]>>>>
     : j \in {k \in 2..(Len(url) - 1) : url[k] = "="}}

NamedPair(url, name) ==
  IF \E p \in PairsOf(url) : p[1] = <<name>>
    THEN CHOOSE p \in PairsOf(url) : p[1] = <<name>>
    ELSE <<<<name>>, <<"undefined">>>>

HasQuery(url) == \E j \in 1..Len(url) : url[j] = "?"

\* No parametrized controller whose key is in the url declares a
\* querystring schema that the query string of the url violates.
QuerySchemasMet ==
  \A i \in Matching :
    ModuleFile(dynamicController[i].controller).querySchema
      \subseteq {p[1][1] : p \in PairsOf(request.url)}

Serialized(kind) ==
  CASE kind = "string" -> <<"hello">>
    [] kind = "binary" -> <<"0x68", "0x69">>
    [] kind = "undefined" -> <<"undefined">>
    [] kind = "array" -> <<"[", "1", ",", "2", ",", "3", "]">>
    [] kind = "object" -> <<"{", "\"", "a", "\"", ":", "\"", "1", "\"", "}">>
    [] kind = "number" -> <<"42">>
    [] kind = "boolean" -> <<"true">>

\* C18: the body of the response send writes is the payload itself for a
\* string or binary payload, the text undefined for undefined, the JSON text
\* for an array or a plain object, and the string form for a number or a
\* boolean.
C18_SerializedByKind ==
  Handled =>
    \A i \in Calls(log, "send") :
      /\ log[i + 1].ev = "respond"
      /\ log[i + 1].body = Serialized(log[i].who)

\* send([1, 2, 3]) has answered with the seven tokens of [1,2,3].
C18_Witness ==
  \E i \in Calls(log, "send") :
    /\ log[i].who = "array"
    /\ log[i + 1].ev = "respond"
    /\ Len(log[i + 1].body) = 7
    /\ log[i + 1].body[1] = "["

\* ------------------------------------------------------------------ C19
\* The parametrized pages whose key is a substring of the url.
MatchingPages == {i \in 1..Len(dynamicPage) :
                    Includes(request.url, dynamicPage[i].url)}

NoPage == request.url \notin DOMAIN pages /\ MatchingPages = {}

\* C19: when the routing step runs for a request whose url is the path of a
\* stored static file and matches no controller and no page, a response
\* with status 200 and the stored content as its body is written.
C19_StaticRoundTrip ==
  (/\ Handled
   /\ RouteEntered
   /\ request.url \in DOMAIN staticFiles
   /\ Resolved = ""
   /\ NoPage)
    => \E i \in Responses(log) :
         /\ log[i].status = 200
         /\ log[i].body = <<staticFiles[request.url]>>

\* ------------------------------------------------------------------ C20
\* The first rule of the routing order that applies to the url, with the
\* module it selects.
FirstRule ==
  IF request.url \in DOMAIN controller
    THEN <<"controller", controller[request.url]>>
  ELSE IF Matching # {}
    THEN <<"dynamicController", dynamicController[FirstMatching].controller>>
  ELSE IF request.url \in DOMAIN pages
    THEN <<"page", pages[request.url]>>
  ELSE IF MatchingPages # {}
    THEN <<"dynamicPage",
           dynamicPage[CHOOSE i \in MatchingPages :
                         \A j \in MatchingPages : i <= j].page>>
  ELSE IF request.url \in DOMAIN staticFiles THEN <<"static", "">>
  ELSE <<"none", "">>

\* C20: when the routing step runs, every handler invoked is the one the
\* first applicable rule selects (exact controller, parametrized controller,
\* exact page, parametrized page, static file), also when that rule then
\* refuses the request; a controller whose checks pass, a page and a stored
\* static file are served, and a url no rule applies to is answered 404 with
\* NOT_FOUND.
C20_FirstApplicableRule ==
  (Handled /\ RouteEntered)
    => /\ \A i \in Handlers(log) :
            log[i].kind = FirstRule[1] /\ log[i].who = FirstRule[2]
       /\ (/\ FirstRule[1] \in {"controller", "dynamicController"}
           /\ MethodAllowed(ModuleFile(FirstRule[2]))
           /\ HeadersValid(ModuleFile(FirstRule[2])))
            => Invoked(log, FirstRule[2])
       /\ FirstRule[1] \in {"page", "dynamicPage", "static"}
            => \E i \in Handlers(log) : log[i].kind = FirstRule[1]
       /\ FirstRule[1] = "none"
            => \E i \in ErrorResponses(log) :
                 /\ log[i].status = 404
                 /\ Includes(log[i].body, NOT_FOUND)

\* ------------------------------------------------------------------ C21
AllCallNext ==
  \A i \in 1..Len(middlewares) : request.act[middlewares[i]] = "next"

C21_OncePerMiddleware ==
  (/\ Handled
   /\ Len(middlewares) > 0
   /\ MiddlewareRun(log) = middlewares
   /\ AllCallNext)
    => Cardinality(Events(log, "route")) = Len(middlewares)

\* C21: for a request on which every one of the N registered middleware
\* runs and calls its continuation without an error, the routing step is
\* entered N times, once from each continuation.
C21_RoutingPerMiddleware == [][Accepting => C21_OncePerMiddleware']_vars

\* All NumMiddleware middleware are registered, each called next, and the
\* routing step was entered as many times.
C21_Witness ==
  /\ Handled
  /\ Len(middlewares) = NumMiddleware
  /\ MiddlewareRun(log) = middlewares
  /\ AllCallNext
  /\ Cardinality(Events(log, "route")) = NumMiddleware
  /\ Cardinality(Handlers(log)) = NumMiddleware

\* ------------------------------------------------------------------ C22
\* C22: every controller handler invoked for a request, exact-match or
\* parametrized, belongs to a controller whose methods list allows the
\* request's method and whose header schema the request's headers satisfy.
C22_CheckedBeforeInvoked ==
  \A i \in Handlers(log) :
    log[i].kind \in {"controller", "dynamicController"}
      => /\ MethodAllowed(ModuleFile(log[i].who))
         /\ HeadersValid(ModuleFile(log[i].who))

\* A request without the token header reached the routing step, resolved
\* to the parametrized controller d_b, whose header schema requires it, and
\* no handler was invoked.
C22_Witness ==
  /\ Handled
  /\ RouteEntered
  /\ Resolved = "d_b"
  /\ request.url \notin DOMAIN controller
  /\ ~HeadersValid(ModuleFile("d_b"))
  /\ Handlers(log) = {}
  /\ ErrorResponses(log) # {}

\* ------------------------------------------------------------------ C23
\* The registered middleware whose method constraint or header schema the
\* request violates.
Violated ==
  {j \in 1..Len(middlewares) :
     \/ ~MethodAllowed(MiddlewareFile(middlewares[j]))
     \/ ~HeadersValid(MiddlewareFile(middlewares[j]))}

\* The chain comes to the j-th middleware: every earlier one returns, or
\* calls its continuation without an error while routing raises none.
CameTo(j) ==
  \A i \in 1..(j - 1) :
    \/ request.act[middlewares[i]] = "return"
    \/ /\ request.act[middlewares[i]] = "next"
       /\ ~RouteThrows(ServerRequest(request.url, request.method,
                                     request.headers, request.handler))

\* C23: when the chain comes to a middleware whose method constraint or
\* header schema the request violates, neither that middleware nor a later
\* one is invoked, the routing step is not run for the request, and an
\* error response is written, 404 for the method and 400 for the headers.
C23_ViolationAbortsChain ==
  (Handled /\ request.url # <<"/">>)
    => \A j \in Violated :
         ((\A i \in Violated : j <= i) /\ CameTo(j))
           => /\ MiddlewareRun(log) = SubSeq(middlewares, 1, j - 1)
              /\ ~RouteEntered
              /\ \E i \in ErrorResponses(log) :
                   log[i].status =
                     IF MethodAllowed(MiddlewareFile(middlewares[j]))
                       THEN 400 ELSE 404

\* ------------------------------------------------------------------ C24
\* The segments of a url: the text between its slashes, as getParams is
\* said to return them.
RECURSIVE Segments(_)
Segments(url) ==
  IF url = <<>> THEN <<>>
  ELSE IF Head(url) = "/" THEN <<<<>>>> \o Segments(Tail(url))
  ELSE LET rest == Segments(Tail(url))
       IN IF rest = <<>> THEN <<<<Head(url)>>>>
          ELSE <<<<Head(url)>> \o Head(rest)>> \o Tail(rest)

\* The indices a params schema names, met by n segments.
ParamsMet(schema, n) == schema \subseteq {ToString(j - 1) : j \in 1..n}

\* C24: getParams returns the segments of the url between its slashes,
\* without the empty leading one; when the url resolves to a parametrized
\* controller that declares a params schema which the segments violate,
\* getParams throws a validation error instead.
C24_ParamsOfRoute ==
  (Handled /\ request.url # <<"/">>)
    => \A i \in Calls(log, "getParams") :
         IF /\ request.url \notin DOMAIN controller
            /\ Resolved # ""
            /\ ~ParamsMet(ModuleFile(Resolved).paramsSchema,
                          Len(Segments(request.url)) - 1)
           THEN /\ log[i + 1].ev = "threw"
                /\ Includes(log[i + 1].body, <<"VALIDATE">>)
           ELSE /\ log[i + 1].ev = "result"
                /\ log[i + 1].body = Tail(Segments(request.url))

\* ------------------------------------------------------------------ C25
\* The parametrized controllers whose key is in the url and which declare a
\* querystring schema that the query string of the url violates.
QueryViolated ==
  {i \in Matching :
     ~(ModuleFile(dynamicController[i].controller).querySchema
         \subseteq {p[1][1] : p \in PairsOf(request.url)})}

\* C25: getQuery on a url with a query string throws a validation error
\* when a parametrized controller whose key is in the url declares a
\* querystring schema the query violates, with or without a params schema.
C25_QuerySchemaEnforced ==
  (Handled /\ HasQuery(request.url) /\ QueryViolated # {})
    => \A i \in Calls(log, "getQuery") :
         /\ log[i + 1].ev = "threw"
         /\ Includes(log[i + 1].body, <<"VALIDATE">>)

\* ------------------------------------------------------------------ C26
\* The positions of the "=" of the pairs of a form body.
EqAt(body) == {j \in 1..Len(body) : body[j] = "="}

\* The one-key object of the pair whose "=" is at position j.
PairAt(body, j) ==
  <<decodeURIComponent(<<body[j - 1]>>), decodeURIComponent(<<body[j + 1]>>)>>

\* C26: getPayload on a form-urlencoded body returns one object for a body
\* of exactly one pair, the sequence of one-key objects in body order for a
\* body of more than one pair, and undefined for an empty body.
C26_FormDecoded ==
  (/\ Handled
   /\ Includes(request.mime, <<"application/x-www-form-urlencoded">>))
    => \A i \in Calls(log, "getPayload") :
         /\ log[i + 1].ev = "result"
         /\ CASE Cardinality(EqAt(request.body)) = 0 ->
                  log[i + 1].kind = "undefined"
              [] Cardinality(EqAt(request.body)) = 1 ->
                  /\ log[i + 1].kind = "object"
                  /\ log[i + 1].headers = {PairAt(request.body, 2)}
              [] OTHER ->
                  /\ log[i + 1].kind = "array"
                  /\ log[i + 1].body =
                       [k \in 1..Cardinality(EqAt(request.body))
                          |-> <<PairAt(request.body, 4 * k - 2)>>]

\* ------------------------------------------------------------------ C27
\* The middleware invoked for the request that called their continuation
\* without an error, by position in the log.
CalledNext ==
  {i \in Events(log, "middleware") : request.act[log[i].who] = "next"}

C27_Continues ==
  (/\ Handled
   /\ \E i \in Events(log, "middleware") : request.act[log[i].who] = "return")
    => /\ ErrorResponses(log) = {} => MiddlewareRun(log) = middlewares
       /\ Cardinality(Events(log, "route")) = Cardinality(CalledNext)
       /\ \A i \in Events(log, "route") : i - 1 \in CalledNext

\* C27: for a request on which a middleware returns without calling its
\* continuation, every registered middleware is still invoked unless an
\* error is raised, and the routing step runs once from the continuation of
\* each middleware that calls it without an error.
C27_ReturnDoesNotStop == [][Accepting => C27_Continues']_vars

\* The first middleware returned without calling next, the second ran,
\* called next, and a handler was invoked from its continuation.
C27_Witness ==
  /\ Handled
  /\ Len(middlewares) = NumMiddleware
  /\ request.act[middlewares[1]] = "return"
  /\ MiddlewareRun(log) = middlewares
  /\ Cardinality(Events(log, "route")) = 1
  /\ Handlers(log) # {}
  /\ ErrorResponses(log) = {}

\* ------------------------------------------------------------------ C28
\* The url is the key of an exact-match controller followed by "?" and a
\* query.
KeyWithQuery ==
  \E k \in DOMAIN controller :
    /\ Len(request.url) > Len(k) + 1
    /\ SubSeq(request.url, 1, Len(k) + 1) = k \o <<"?">>

C28_NotExact ==
  (Handled /\ KeyWithQuery)
    => /\ \A i \in Handlers(log) :
            log[i].kind \in {"dynamicController", "page", "dynamicPage",
                             "static"}
       /\ (RouteEntered /\ NothingMatches)
            => \E i \in ErrorResponses(log) :
                 /\ log[i].status = 404
                 /\ Includes(log[i].body, NOT_FOUND)

\* C28: a request whose url is the key of an exact-match controller
\* followed by "?" and a query never has the handler of an exact-match
\* controller invoked: it is handled by a parametrized controller, a page
\* or the static-file step, or it is answered 404 with NOT_FOUND when none
\* of them matches.
C28_WholeUrlCompared == [][Accepting => C28_NotExact']_vars

\* /a/b?name=v with the exact-match controller /a/b registered: the handler
\* of a parametrized controller was invoked.
C28_Witness ==
  /\ Handled
  /\ KeyWithQuery
  /\ \E i \in Handlers(log) : log[i].kind = "dynamicController"

\* ------------------------------------------------------------------ C29
\* The headers of a response other than the three that Fastro.send sets on
\* every response.
Passed(headers) ==
  {h \in headers : h[1] \notin {"connection", "date", "x-powered-by"}}

\* C29: the response of a send after a content type was staged with type
\* holds, of the headers that send was or could have been passed, only the
\* staged content type; the response of a send with no content type staged
\* holds every header send was passed.
C29_StagedTypeReplacesHeaders ==
  Handled =>
    \A i \in Calls(log, "send") :
      IF LastCall(log, "type", i) # 0
        THEN Passed(log[i + 1].headers)
               = {<<CONTENT_TYPE, log[LastCall(log, "type", i)].who>>}
        ELSE log[i].headers \subseteq log[i + 1].headers

\* A content type was staged, send was passed text/html and x-custom, and
\* the response holds x-custom no more.
C29_Witness ==
  \E i \in Calls(log, "send") :
    /\ LastCall(log, "type", i) # 0
    /\ log[i].headers = PassedHeaders
    /\ log[i + 1].ev = "respond"
    /\ <<"x-custom", "1">> \notin log[i + 1].headers

====
